---------------------------- MODULE Spec2Model ----------------------------
(***************************************************************************)
(* number_sorter.py: read_numbers_from_file, sort_numbers,                 *)
(* write_numbers_to_file and the driver main.                              *)
(*                                                                         *)
(* Text is a sequence of one-character strings.  A file's content is one   *)
(* such sequence, lines being separated by "\n" as on a POSIX build.       *)
(* A float is a decimal  n * 10^e  (n an integer not divisible by 10, or   *)
(* n = 0 and e = 0), or one of inf, -inf, nan.  The literals of the model  *)
(* have few digits, so the binary double nearest to each prints back as    *)
(* the same decimal (repr is the shortest round-tripping decimal) and the  *)
(* decimal stands for the double.  -0.0 and 0.0 are one value: no          *)
(* operation of the program tells them apart.                              *)
(***************************************************************************)
EXTENDS Integers, Sequences, FiniteSets, Bags, TLC

\* Most lines of an input file, most values of a list handed to the Writer.
MaxLines == 3

---------------------------------------------------------------------------
(* Text                                                                    *)

LF == "\n"

\* The characters str.strip() removes, among those of the model's alphabet.
Whitespace == {" ", "\t", "\n", "\r"}

DigitChars == <<"0", "1", "2", "3", "4", "5", "6", "7", "8", "9">>

Digits == {DigitChars[i] : i \in 1..10}

DigitVal(c) == (CHOOSE i \in 1..10 : DigitChars[i] = c) - 1

RECURSIVE LStrip(_)
LStrip(s) ==
  IF s # <<>> /\ Head(s) \in Whitespace THEN LStrip(Tail(s)) ELSE s

RECURSIVE RStrip(_)
RStrip(s) ==
  IF s # <<>> /\ s[Len(s)] \in Whitespace
  THEN RStrip(SubSeq(s, 1, Len(s) - 1)) ELSE s

\* line.strip()
Strip(s) == RStrip(LStrip(s))

\* Iterating a text file: each line with its terminator, the last one
\* without when the file does not end in a line break.
RECURSIVE LinesFrom(_, _, _)
LinesFrom(s, start, i) ==
  IF i > Len(s)
  THEN IF start > Len(s) THEN <<>> ELSE <<SubSeq(s, start, Len(s))>>
  ELSE IF s[i] = LF
  THEN <<SubSeq(s, start, i)>> \o LinesFrom(s, i + 1, i + 1)
  ELSE LinesFrom(s, start, i + 1)

FileLines(s) == LinesFrom(s, 1, 1)

RECURSIVE Pow10(_)
Pow10(k) == IF k = 0 THEN 1 ELSE 10 * Pow10(k - 1)

RECURSIVE Zeros(_)
Zeros(k) == IF k <= 0 THEN <<>> ELSE <<"0">> \o Zeros(k - 1)

\* The decimal digits of a natural number: str(n) for n >= 0.
RECURSIVE NatStr(_)
NatStr(n) ==
  IF n < 10 THEN <<DigitChars[n + 1]>>
  ELSE NatStr(n \div 10) \o <<DigitChars[(n % 10) + 1]>>

\* The number a run of digits spells; 0 for the empty run.
RECURSIVE DigitsVal(_)
DigitsVal(s) ==
  IF s = <<>> THEN 0
  ELSE 10 * DigitsVal(SubSeq(s, 1, Len(s) - 1)) + DigitVal(s[Len(s)])

\* The length of the longest prefix of s made of digits.
RECURSIVE DigitRun(_)
DigitRun(s) ==
  IF s # <<>> /\ Head(s) \in Digits THEN 1 + DigitRun(Tail(s)) ELSE 0

---------------------------------------------------------------------------
(* Floats                                                                  *)

NaN == [k |-> "nan", n |-> 0, e |-> 0]

PosInf == [k |-> "inf", n |-> 1, e |-> 0]

NegInf == [k |-> "inf", n |-> -1, e |-> 0]

\* n * 10^e with the trailing zeros of n moved into e.
RECURSIVE Fin(_, _)
Fin(n, e) ==
  IF n = 0 THEN [k |-> "fin", n |-> 0, e |-> 0]
  ELSE IF n % 10 = 0 THEN Fin(n \div 10, e + 1)
  ELSE [k |-> "fin", n |-> n, e |-> e]

Abs(x) == IF x < 0 THEN -x ELSE x

\* a < b on finite values: both brought to the smaller exponent.
FinLt(a, b) ==
  LET m == IF a.e < b.e THEN a.e ELSE b.e
  IN  a.n * Pow10(a.e - m) < b.n * Pow10(b.e - m)

\* a < b on doubles: every comparison with nan is false.
Lt(a, b) ==
  CASE a.k = "nan" \/ b.k = "nan" -> FALSE
    [] a.k = "inf" /\ b.k = "inf" -> a.n < b.n
    [] a.k = "inf" -> a.n < 0
    [] b.k = "inf" -> b.n > 0
    [] OTHER -> FinLt(a, b)

\* a <= b on doubles.
Le(a, b) ==
  CASE a.k = "nan" \/ b.k = "nan" -> FALSE
    [] OTHER -> ~Lt(b, a)


Ok(v) == [ok |-> TRUE, v |-> v]

NotANumber == [ok |-> FALSE, v |-> NaN]

\* float(s) for a stripped string s over the model's alphabet: an optional
\* sign, then nan, inf, infinity, or digits with an optional point and an
\* optional exponent, at least one digit before the exponent.  ok is FALSE
\* where float raises ValueError.
ParseFloat(s) ==
  LET signed == s # <<>> /\ Head(s) \in {"+", "-"}
      sg     == IF signed /\ Head(s) = "-" THEN -1 ELSE 1
      r      == IF signed THEN Tail(s) ELSE s
      ni     == DigitRun(r)
      r1     == SubSeq(r, ni + 1, Len(r))
      dot    == r1 # <<>> /\ Head(r1) = "."
      r2     == IF dot THEN Tail(r1) ELSE r1
      nf     == IF dot THEN DigitRun(r2) ELSE 0
      r3     == SubSeq(r2, nf + 1, Len(r2))
      hasExp == r3 # <<>> /\ Head(r3) \in {"e", "E"}
      r4     == IF hasExp THEN Tail(r3) ELSE r3
      esign  == hasExp /\ r4 # <<>> /\ Head(r4) \in {"+", "-"}
      esg    == IF esign /\ Head(r4) = "-" THEN -1 ELSE 1
      r5     == IF esign THEN Tail(r4) ELSE r4
      ne     == DigitRun(r5)
      mant   == DigitsVal(SubSeq(r, 1, ni) \o SubSeq(r2, 1, nf))
      ex     == (IF hasExp THEN esg * DigitsVal(r5) ELSE 0) - nf
  IN  IF r = <<"n", "a", "n">> THEN Ok(NaN)
      ELSE IF r \in {<<"i", "n", "f">>,
                     <<"i", "n", "f", "i", "n", "i", "t", "y">>}
      THEN Ok(IF sg < 0 THEN NegInf ELSE PosInf)
      ELSE IF /\ ni + nf >= 1
              /\ IF hasExp THEN ne >= 1 /\ ne = Len(r5) ELSE r3 = <<>>
      THEN Ok(Fin(sg * mant, ex))
      ELSE NotANumber

\* number.is_integer(): false for inf and nan.
IsInteger(v) == v.k = "fin" /\ v.e >= 0

\* str(int(number)) for an integral float.
IntStr(v) ==
  (IF v.n < 0 THEN <<"-">> ELSE <<>>) \o NatStr(Abs(v.n)) \o Zeros(v.e)

\* repr(number), which f"{number}" prints: the shortest digits that round
\* trip, in exponent form when the decimal point would fall more than 16
\* places after, or more than 3 places before, the first digit.
FloatRepr(v) ==
  LET neg   == IF v.n < 0 THEN <<"-">> ELSE <<>>
      d     == NatStr(Abs(v.n))
      nd    == Len(d)
      decpt == nd + v.e
      ex    == decpt - 1
      exs   == NatStr(Abs(ex))
  IN  CASE v.k = "nan" -> <<"n", "a", "n">>
        [] v.k = "inf" -> neg \o <<"i", "n", "f">>
        [] v.n = 0 -> <<"0", ".", "0">>
        [] decpt > 16 \/ decpt < -3 ->
             neg \o <<d[1]>>
                 \o (IF nd > 1 THEN <<".">> \o SubSeq(d, 2, nd) ELSE <<>>)
                 \o <<"e", IF ex < 0 THEN "-" ELSE "+">>
                 \o (IF Len(exs) < 2 THEN <<"0">> ELSE <<>>) \o exs
        [] decpt <= 0 -> neg \o <<"0", ".">> \o Zeros(-decpt) \o d
        [] decpt >= nd -> neg \o d \o Zeros(decpt - nd) \o <<".", "0">>
        [] OTHER ->
             neg \o SubSeq(d, 1, decpt) \o <<".">> \o SubSeq(d, decpt + 1, nd)

---------------------------------------------------------------------------
(* sorted(): CPython's list.sort on a list of fewer than 64 floats, which  *)
(* compares with < only: the leading run is found (and reversed when it    *)
(* strictly descends), then the rest is inserted by binary insertion.      *)

Reverse(a) == [i \in 1..Len(a) |-> a[Len(a) + 1 - i]]

\* The length of the run that starts the list, i of its elements known.
RECURSIVE RunEnd(_, _, _)
RunEnd(a, i, desc) ==
  IF i < Len(a) /\ (Lt(a[i + 1], a[i]) = desc)
  THEN RunEnd(a, i + 1, desc) ELSE i

\* The place (0-based) of pivot in the sorted prefix a[l+1..r].
RECURSIVE BinSearch(_, _, _, _)
BinSearch(a, pivot, l, r) ==
  IF l >= r THEN l
  ELSE LET p == l + ((r - l) \div 2)
       IN  IF Lt(pivot, a[p + 1])
           THEN BinSearch(a, pivot, l, p)
           ELSE BinSearch(a, pivot, p + 1, r)

\* The first start elements are sorted; insert the others one by one.
RECURSIVE BinarySort(_, _)
BinarySort(a, start) ==
  IF start >= Len(a) THEN a
  ELSE LET pivot == a[start + 1]
           l     == BinSearch(a, pivot, 0, start)
       IN  BinarySort(SubSeq(a, 1, l) \o <<pivot>> \o SubSeq(a, l + 1, start)
                        \o SubSeq(a, start + 2, Len(a)),
                      start + 1)

ListSort(a) ==
  IF Len(a) < 2 THEN a
  ELSE LET desc == Lt(a[2], a[1])
           n    == RunEnd(a, 2, desc)
           b    == IF desc
                   THEN Reverse(SubSeq(a, 1, n)) \o SubSeq(a, n + 1, Len(a))
                   ELSE a
       IN  BinarySort(b, n)

---------------------------------------------------------------------------
(* Files and exceptions                                                    *)

\* A path names nothing, or a file the process may not open, or a file.
Absent == [st |-> "absent", data |-> <<>>]

Denied(d) == [st |-> "denied", data |-> d]

File(d) == [st |-> "file", data |-> d]

NoExc == [type |-> "none", args |-> <<>>]

Exc(t, a) == [type |-> t, args |-> a]

\* What open(filename, 'r') raises.
OpenForRead(file) ==
  CASE file.st = "absent" -> "FileNotFoundError"
    [] file.st = "denied" -> "PermissionError"
    [] OTHER -> "none"

\* The exceptions open and write raise themselves, with the text str(e) has.
OSError(type, filename) ==
  CASE type = "PermissionError" ->
         Exc(type, <<"[Errno 13] Permission denied: '", filename, "'">>)
    [] type = "FileNotFoundError" ->
         Exc(type, <<"[Errno 2] No such file or directory: '", filename, "'">>)
    [] OTHER ->
         Exc("OSError", <<"[Errno 28] No space left on device">>)

---------------------------------------------------------------------------
(* read_numbers_from_file                                                  *)

\* ReadLoop numbering only the lines that hold text: the blank lines
\* before the offending one are not counted.
RECURSIVE ReadLoopCountsText(_, _, _)
ReadLoopCountsText(lines, line_num, numbers) ==
  IF line_num > Len(lines) THEN [exc |-> NoExc, ret |-> numbers]
  ELSE LET line == Strip(lines[line_num])
       IN  IF line = <<>>
           THEN ReadLoopCountsText(SubSeq(lines, 1, line_num - 1)
                                     \o SubSeq(lines, line_num + 1, Len(lines)),
                                   line_num, numbers)
           ELSE LET r == ParseFloat(line)
                IN  IF r.ok
                    THEN ReadLoopCountsText(lines, line_num + 1,
                                            Append(numbers, r.v))
                    ELSE [exc |-> Exc("ValueError",
                                   <<"Invalid number '", line,
                                     "' on line ", line_num>>),
                          ret |-> <<>>]

\* ReadLoop leaving the loop at the first blank line instead of skipping it.
RECURSIVE ReadLoopStopsAtBlank(_, _, _)
ReadLoopStopsAtBlank(lines, line_num, numbers) ==
  IF line_num > Len(lines) THEN [exc |-> NoExc, ret |-> numbers]
  ELSE LET line == Strip(lines[line_num])
       IN  IF line = <<>> THEN [exc |-> NoExc, ret |-> numbers]
           ELSE LET r == ParseFloat(line)
                IN  IF r.ok
                    THEN ReadLoopStopsAtBlank(lines, line_num + 1,
                                              Append(numbers, r.v))
                    ELSE [exc |-> Exc("ValueError",
                                   <<"Invalid number '", line,
                                     "' on line ", line_num>>),
                          ret |-> <<>>]

\* The loop over the lines, from line line_num on, with the numbers
\* appended so far: the list returned, or the ValueError raised.
RECURSIVE ReadLoop(_, _, _)
ReadLoop(lines, line_num, numbers) ==
  IF line_num > Len(lines) THEN [exc |-> NoExc, ret |-> numbers]
  ELSE LET line == Strip(lines[line_num])
       IN  IF line = <<>> THEN ReadLoop(lines, line_num + 1, numbers)
           ELSE LET r == ParseFloat(line)
                IN  IF r.ok
                    THEN ReadLoop(lines, line_num + 1, Append(numbers, r.v))
                    ELSE [exc |-> Exc("ValueError",
                                   <<"Invalid number '", line,
                                     "' on line ", line_num>>),
                          ret |-> <<>>]

\* ReadOpenError reporting every failure of open as a missing file.
ReadOpenErrorAlwaysNotFound(type, filename) ==
  Exc("FileNotFoundError", <<"File '", filename, "' not found">>)

\* The exception that leaves the function when open(filename, 'r') raises:
\* FileNotFoundError is caught and raised anew with the function's own
\* message, any other passes through.
ReadOpenError(type, filename) ==
  IF type = "FileNotFoundError"
  THEN Exc("FileNotFoundError", <<"File '", filename, "' not found">>)
  ELSE OSError(type, filename)

\* exc is the exception raised (NoExc: none) and ret the list returned.
read_numbers_from_file(filename, file) ==
  IF OpenForRead(file) # "none"
  THEN [exc |-> ReadOpenError(OpenForRead(file), filename), ret |-> <<>>]
  ELSE ReadLoop(FileLines(file.data), 1, <<>>)

---------------------------------------------------------------------------
(* sort_numbers                                                            *)

\* The elements of a list, each once, in the order of their first place.
RECURSIVE Distinct(_)
Distinct(a) ==
  IF a = <<>> THEN <<>>
  ELSE LET rest == Distinct(SubSeq(a, 1, Len(a) - 1))
       IN  IF \E i \in 1..Len(rest) : rest[i] = a[Len(a)]
           THEN rest ELSE Append(rest, a[Len(a)])

\* sort_numbers going through a set: sorted(set(numbers)).
sort_numbers_of_set(numbers) == ListSort(Distinct(numbers))

sort_numbers(numbers) == ListSort(numbers)

---------------------------------------------------------------------------
(* write_numbers_to_file                                                   *)

\* FormatNumber without the test for integers: f"{number}" always.
FormatNumberRepr(number) == FloatRepr(number)

\* The text of one number, without its line break.
FormatNumber(number) ==
  IF IsInteger(number) THEN IntStr(number) ELSE FloatRepr(number)

\* What the loop writes for the numbers from the i-th on.
RECURSIVE WriteLoop(_, _)
WriteLoop(numbers, i) ==
  IF i > Len(numbers) THEN <<>>
  ELSE FormatNumber(numbers[i]) \o <<LF>> \o WriteLoop(numbers, i + 1)

\* Written for a file opened with mode 'a'.
Appended(old, text) == old \o text

\* The content of the file once opened with mode 'w' and written: the old
\* content is gone.
Written(old, text) == text

\* env is what the system does with the open and the writes: "ok";
\* "denied" (the file or its directory is not writable); "noparent" (the
\* directory of the path does not exist); "full" (the device fills up
\* after env.k lines reached the file).  exc is the exception raised and
\* file the file at the path afterwards.
write_numbers_to_file(numbers, filename, file, env) ==
  CASE env.kind = "denied" ->
         [exc |-> OSError("PermissionError", filename), file |-> file]
    [] env.kind = "noparent" ->
         [exc |-> OSError("FileNotFoundError", filename), file |-> file]
    [] env.kind = "full" ->
         [exc  |-> OSError("OSError", filename),
          file |-> File(Written(file.data,
                                WriteLoop(SubSeq(numbers, 1, env.k), 1)))]
    [] OTHER ->
         [exc  |-> NoExc,
          file |-> File(Written(file.data, WriteLoop(numbers, 1)))]

\* What the system can do with a write of these numbers to this file.
WriteEnvs(numbers, file) ==
  {[kind |-> "ok", k |-> 0], [kind |-> "denied", k |-> 0]}
    \cup (IF file.st = "absent" THEN {[kind |-> "noparent", k |-> 0]} ELSE {})
    \cup {[kind |-> "full", k |-> k] : k \in 0..(Len(numbers) - 1)}

---------------------------------------------------------------------------
(* The state: one run of main, or one direct call of                       *)
(* write_numbers_to_file as the tests make it.                             *)

VARIABLES
  argc,            \* len(sys.argv)
  input,           \* the file at sys.argv[1]
  output,          \* the file at sys.argv[2]
  output0,         \* the file at sys.argv[2] when the process started
  pc,              \* where the run is
  numbers,         \* main's numbers (<<>> until assigned)
  sorted_numbers,  \* main's sorted_numbers (<<>> until assigned)
  raised,          \* the exception the last call raised (NoExc: none)
  raiser,          \* the function whose body raised it, or "none"
  stdout,          \* what has been printed, one element per line
  status,          \* the exit status; -1 while the process runs
  fault            \* the exception that left main uncaught, or "none"

vars == <<argc, input, output, output0, pc, numbers, sorted_numbers,
          raised, raiser, stdout, status, fault>>

input_file == "in.txt"

output_file == "out.txt"

\* The lines an input file is made of, without their line breaks.
InputLines ==
  { <<"1", "0">>,
    <<>>,
    <<" ", "\t">>,
    <<"a", "b", "c">>,
    <<"n", "a", "n">>,
    <<"2", "0", ".", "5">>,
    <<"1", "0", ".", "0">>,
    <<" ", "-", "5", " ">>,
    <<"0", ".", "0", "0", "0", "0", "1">> }

RECURSIVE Join(_)
Join(lines) ==
  IF lines = <<>> THEN <<>> ELSE Head(lines) \o <<LF>> \o Join(Tail(lines))

RECURSIVE SeqsUpTo(_, _)
SeqsUpTo(S, n) ==
  IF n = 0 THEN {<<>>}
  ELSE LET shorter == SeqsUpTo(S, n - 1)
       IN  shorter \cup {Append(s, x) : s \in shorter, x \in S}

\* The contents of the input file: up to MaxLines lines, each ended by a
\* line break, the last one possibly not.
InputContents ==
  LET full == {Join(ls) : ls \in SeqsUpTo(InputLines, MaxLines)}
  IN  full \cup {SubSeq(d, 1, Len(d) - 1) : d \in full \ {<<>>}}

\* What the output path may hold before the run.
OldContents == {<<"7", LF, "8", ".", "5", LF>>}

\* The floats a caller may hand to write_numbers_to_file.
Floats ==
  {Fin(10, 0), Fin(5, 0), Fin(205, -1), Fin(-5, 0), Fin(1, -5), NaN, PosInf}

InitMain ==
  /\ \/ /\ argc = 3
        /\ input \in {Absent} \cup {Denied(<<"5", LF>>)}
                      \cup {File(d) : d \in InputContents}
     \/ /\ argc \in {1, 2, 4}
        /\ input \in {Absent, File(<<"5", LF>>)}
  /\ output \in {Absent} \cup {File(d) : d \in OldContents}
  /\ pc = "start"
  /\ numbers = <<>>
  /\ sorted_numbers = <<>>

InitCall ==
  /\ argc = 0
  /\ input = Absent
  /\ output \in {Absent} \cup {File(d) : d \in OldContents}
  /\ pc = "call_write"
  /\ numbers \in SeqsUpTo(Floats, MaxLines)
  /\ sorted_numbers = <<>>

Init ==
  /\ InitMain \/ InitCall
  /\ output0 = output
  /\ raised = NoExc
  /\ raiser = "none"
  /\ stdout = <<>>
  /\ status = -1
  /\ fault = "none"

---------------------------------------------------------------------------
(* main                                                                    *)

\* The exceptions main's except clause names.
Caught == {"FileNotFoundError", "ValueError"}

\* An exception raised inside main's try block, out having been printed:
\* a caught one is printed and the process exits with status 1; any other
\* leaves main, and the interpreter ends the process with a traceback on
\* stderr and status 1.
Raise(out, e, by) ==
  /\ raised' = e
  /\ raiser' = by
  /\ pc' = "done"
  /\ status' = 1
  /\ IF e.type \in Caught
     THEN /\ stdout' = Append(out, <<"Error: ", e.args>>)
          /\ fault' = "none"
     ELSE /\ stdout' = out
          /\ fault' = e.type

\* len(sys.argv) != 3: the usage message and exit status 1.
Usage ==
  /\ pc = "start"
  /\ argc # 3
  /\ stdout' = Append(stdout, <<"Usage: python number_sorter.py <input_file> <output_file>">>)
  /\ status' = 1
  /\ pc' = "done"
  /\ UNCHANGED <<argc, input, output, output0, numbers, sorted_numbers,
                 raised, raiser, fault>>

\* AfterRead for a main that logs the reader's failure and goes on.
AfterReadGoesOn(r) == "sort"

\* Where main goes once read_numbers_from_file has returned or raised.
AfterRead(r) == IF r.exc.type = "none" THEN "sort" ELSE "done"

\* numbers = read_numbers_from_file(input_file), with the prints around it.
Read ==
  /\ pc = "start"
  /\ argc = 3
  /\ LET r    == read_numbers_from_file(input_file, input)
         said == Append(stdout, <<"Reading numbers from ", input_file, "...">>)
     IN  IF AfterRead(r) = "sort"
         THEN /\ numbers' = r.ret
              /\ stdout' = Append(said, <<"Found ", Len(r.ret), " numbers">>)
              /\ raised' = r.exc
              /\ pc' = "sort"
              /\ UNCHANGED <<raiser, status, fault>>
         ELSE /\ Raise(said, r.exc, "read_numbers_from_file")
              /\ UNCHANGED numbers
  /\ UNCHANGED <<argc, input, output, output0, sorted_numbers>>

\* sorted_numbers = sort_numbers(numbers)
Sort ==
  /\ pc = "sort"
  /\ sorted_numbers' = sort_numbers(numbers)
  /\ stdout' = Append(stdout, <<"Sorting numbers...">>)
  /\ pc' = "write"
  /\ UNCHANGED <<argc, input, output, output0, numbers, raised, raiser,
                 status, fault>>

\* write_numbers_to_file(sorted_numbers, output_file)
Write ==
  /\ pc = "write"
  /\ \E env \in WriteEnvs(sorted_numbers, output) :
       LET w    == write_numbers_to_file(sorted_numbers, output_file, output, env)
           said == Append(stdout, <<"Writing sorted numbers to ", output_file, "...">>)
       IN  /\ output' = w.file
           /\ IF w.exc.type = "none"
              THEN /\ stdout' = said
                   /\ raised' = w.exc
                   /\ pc' = "report"
                   /\ UNCHANGED <<raiser, status, fault>>
              ELSE Raise(said, w.exc, "write_numbers_to_file")
  /\ UNCHANGED <<argc, input, output0, numbers, sorted_numbers>>

\* The report of the smallest and largest number, then the end of main:
\* sorted_numbers[0] of an empty list raises IndexError.
Report ==
  /\ pc = "report"
  /\ LET said == Append(stdout, <<"Sorting completed successfully!">>)
     IN  IF sorted_numbers = <<>>
         THEN Raise(said, Exc("IndexError", <<"list index out of range">>),
                    "main")
         ELSE /\ stdout' = said \o
                    << <<"Smallest number: ", FloatRepr(sorted_numbers[1])>>,
                       <<"Largest number: ",
                         FloatRepr(sorted_numbers[Len(sorted_numbers)])>> >>
              /\ status' = 0
              /\ pc' = "done"
              /\ UNCHANGED <<raised, raiser, fault>>
  /\ UNCHANGED <<argc, input, output, output0, numbers, sorted_numbers>>

\* A direct call write_numbers_to_file(numbers, output_file).
CallWrite ==
  /\ pc = "call_write"
  /\ \E env \in WriteEnvs(numbers, output) :
       LET w == write_numbers_to_file(numbers, output_file, output, env)
       IN  /\ output' = w.file
           /\ raised' = w.exc
           /\ raiser' = IF w.exc.type = "none" THEN "none"
                         ELSE "write_numbers_to_file"
  /\ pc' = "returned"
  /\ UNCHANGED <<argc, input, output0, numbers, sorted_numbers, stdout,
                 status, fault>>

Next == Usage \/ Read \/ Sort \/ Write \/ Report \/ CallWrite

Spec == Init /\ [][Next]_vars

---------------------------------------------------------------------------
(* What the properties speak of                                            *)

\* The run is one of main with two arguments (a direct call has argc = 0).
MainRun == argc = 3

\* The lines of the input file, stripped.
InputStripped ==
  LET lines == FileLines(input.data)
  IN  [i \in 1..Len(lines) |-> Strip(lines[i])]

NonBlank(s) == s # <<>>

\* The places of the non-blank input lines that are no number.
BadLines ==
  LET text == InputStripped
  IN  {i \in 1..Len(text) : NonBlank(text[i]) /\ ~ParseFloat(text[i]).ok}

FirstBadLine ==
  LET bad == BadLines
  IN  CHOOSE i \in bad : \A j \in bad : i <= j

\* The input is a file all of whose non-blank lines are numbers.
InputParses == input.st = "file" /\ BadLines = {}

\* The values of the non-blank input lines, in file order.
InputValues ==
  LET text == SelectSeq(InputStripped, NonBlank)
  IN  [i \in 1..Len(text) |-> ParseFloat(text[i]).v]

\* The reader has been called by main and has returned or raised.
ReadDone == MainRun /\ pc # "start"

\* The last call of write_numbers_to_file returned normally.
WriteDone ==
  \/ pc = "returned" /\ raiser = "none"
  \/ pc = "report"
  \/ pc = "done" /\ (status = 0 \/ raiser = "main")

\* The list that call was given.
Given == IF pc = "returned" THEN numbers ELSE sorted_numbers

OutputLines == FileLines(output.data)

\* The values the lines of the output file spell.
OutputValues ==
  [i \in 1..Len(OutputLines) |-> ParseFloat(Strip(OutputLines[i])).v]

\* How often x occurs in the list a.
Count(a, x) == Cardinality({i \in 1..Len(a) : a[i] = x})

\* The lists a and b hold the same values, each as often.
SameMultiset(a, b) ==
  /\ Len(a) = Len(b)
  /\ \A i \in 1..Len(a) : Count(a, a[i]) = Count(b, a[i])

\* Every adjacent pair (a, b) of the list satisfies a <= b.
Ascending(a) == \A i \in 1..(Len(a) - 1) : Le(a[i], a[i + 1])

---------------------------------------------------------------------------
(* Properties                                                              *)

\* C1: once main has sorted, sorted_numbers holds the values read, each as
\* often as it was read (none dropped, none added, the length kept), and
\* once the Writer has returned the values the output lines spell are the
\* values read, each as often.  nan counts as a value like any other.
C1_MultisetPreserved ==
  /\ (MainRun /\ pc \notin {"start", "sort"}
        /\ raiser # "read_numbers_from_file")
       => /\ Len(sorted_numbers) = Len(numbers)
          /\ SameMultiset(sorted_numbers, numbers)
  /\ (MainRun /\ WriteDone)
       => /\ output.st = "file"
          /\ SameMultiset(OutputValues, InputValues)

\* C1 witness: a run has written an input with a tie that was not sorted.
C1_Witness ==
  /\ MainRun /\ pc = "report"
  /\ Len(numbers) = 3
  /\ numbers[1] = numbers[3]
  /\ Lt(numbers[2], numbers[1])

\* C2: every adjacent pair (a, b) of the list sort_numbers returned, and of
\* the values written to the output, satisfies a <= b.
C2_OutputAscending ==
  /\ (MainRun /\ pc \notin {"start", "sort"}
        /\ raiser # "read_numbers_from_file")
       => Ascending(sorted_numbers)
  /\ (MainRun /\ WriteDone) => Ascending(OutputValues)

\* C3: a run on an input with no non-blank line, whose write succeeded,
\* leaves an empty output file and ends with status 0 and no fault.
C3_EmptyInputCompletes ==
  (MainRun /\ pc = "done" /\ InputParses /\ InputValues = <<>>
     /\ raiser # "write_numbers_to_file")
    => /\ output = File(<<>>)
       /\ status = 0
       /\ fault = "none"

\* C4: when the Reader has failed with FileNotFoundError or ValueError, or
\* the Writer with any error of the system, main has printed
\* "Error: <detail>" as its last line and exited with a non-zero status,
\* and no exception has left main.
C4_FailuresCaught ==
  (/\ MainRun /\ pc = "done"
   /\ \/ raiser = "read_numbers_from_file" /\ raised.type \in Caught
      \/ raiser = "write_numbers_to_file")
    => /\ fault = "none"
       /\ status > 0
       /\ stdout[Len(stdout)] = <<"Error: ", raised.args>>

\* C5: in a run whose input is missing or holds a non-blank line that is
\* no number, main never goes past the Reader's call: the output file is
\* what it was when the process started, and the process ends with
\* status 1.
C5_ReaderFailureLeavesOutput ==
  (MainRun /\ (input.st = "absent" \/ (input.st = "file" /\ BadLines # {})))
    => /\ pc \in {"start", "done"}
       /\ output = output0
       /\ pc = "done" => (status = 1 /\ raiser = "read_numbers_from_file")

\* C5 witness: the Reader has failed on a line and the output file that
\* existed before is there.
C5_Witness ==
  /\ MainRun /\ pc = "done"
  /\ raised.type = "ValueError"
  /\ output0.st = "file"

\* C6: when some non-blank input line is no number, the Reader raises
\* ValueError with the stripped text of the first such line and its place
\* among all the lines of the file, blank ones counted, and main's numbers
\* is never assigned.
C6_FirstInvalidLineReported ==
  (ReadDone /\ input.st = "file" /\ BadLines # {})
    => /\ raiser = "read_numbers_from_file"
       /\ raised.type = "ValueError"
       /\ LET first == FirstBadLine
          IN  raised.args = <<"Invalid number '", InputStripped[first],
                              "' on line ", first>>
       /\ numbers = <<>>
       /\ sorted_numbers = <<>>

\* C6 witness: the first offending line is the second, after a blank one,
\* and another offending line follows it.
C6_Witness ==
  /\ ReadDone /\ input.st = "file"
  /\ raised.type = "ValueError"
  /\ InputStripped[1] = <<>>
  /\ BadLines = {2, 3}

\* C7 as claimed: whenever the input cannot be opened, missing or not, the
\* Reader raises FileNotFoundError naming the path.
C7_AnyOpenFailureIsNotFound ==
  (ReadDone /\ input.st \in {"absent", "denied"})
    => /\ raised.type = "FileNotFoundError"
       /\ raised.args = <<"File '", input_file, "' not found">>
       /\ numbers = <<>>

\* C7 amended: a missing input makes the Reader raise FileNotFoundError
\* naming the path; an input that exists and cannot be opened makes it
\* raise the system's own error (PermissionError), not FileNotFoundError;
\* in both cases nothing is returned.
C7_MissingIsNotFound ==
  /\ (ReadDone /\ input.st = "absent")
       => /\ raiser = "read_numbers_from_file"
          /\ raised.type = "FileNotFoundError"
          /\ raised.args = <<"File '", input_file, "' not found">>
          /\ numbers = <<>>
  /\ (ReadDone /\ input.st = "denied")
       => /\ raiser = "read_numbers_from_file"
          /\ raised.type = "PermissionError"
          /\ input_file \in {raised.args[i] : i \in 1..Len(raised.args)}
          /\ numbers = <<>>

\* C7 witness: the Reader has been called on a missing input.
C7_Witness ==
  /\ ReadDone /\ input.st = "absent"
  /\ raised.type = "FileNotFoundError"

\* C8: when every non-blank input line is a number, the Reader returns the
\* values of the non-blank lines in file order, one per line, and raises
\* nothing.
C8_OneValuePerNonBlankLine ==
  (ReadDone /\ InputParses)
    => /\ raiser # "read_numbers_from_file"
       /\ Len(numbers) = Len(SelectSeq(InputStripped, NonBlank))
       /\ numbers = InputValues

\* C8 witness: a blank line between two numbers has been skipped.
C8_Witness ==
  /\ ReadDone /\ InputParses
  /\ Len(InputStripped) = 3
  /\ InputStripped[2] = <<>>
  /\ Len(numbers) = 2

\* C9: after a write that succeeded the output file is made of one line
\* per number given, the i-th being the text of the i-th number followed
\* by a line break, none of them blank, whatever the path held before.
C9_FileIsTheLinesInOrder ==
  WriteDone
    => /\ output.st = "file"
       /\ Len(OutputLines) = Len(Given)
       /\ \A i \in 1..Len(Given) :
            /\ OutputLines[i] = FormatNumber(Given[i]) \o <<LF>>
            /\ NonBlank(Strip(OutputLines[i]))

\* C9 witness: three numbers out of order have been written over a file
\* that held other lines.
C9_Witness ==
  /\ pc = "returned" /\ raiser = "none"
  /\ output0.st = "file"
  /\ Len(numbers) = 3
  /\ Lt(numbers[2], numbers[1])

\* The text of an integer: str(n).
IntegerText(n) == (IF n < 0 THEN <<"-">> ELSE <<>>) \o NatStr(Abs(n))

\* How often the character c occurs in the text s.
Occurs(s, c) == Cardinality({i \in 1..Len(s) : s[i] = c})

\* The fractional part of the finite value v is zero.
FractionIsZero(v) == v.e >= 0

\* The finite value v is at least 0.0001 in magnitude.
AtLeastTenThousandth(v) == ~FinLt([v EXCEPT !.n = Abs(v.n)], Fin(1, -4))

\* C10 as claimed: of the finite values written, one with a zero
\* fractional part is written as its integer text, without a point, and
\* any other is written with a decimal point.
C10_PointIffFraction ==
  WriteDone
    => \A i \in 1..Len(Given) :
         LET v    == Given[i]
             line == Strip(OutputLines[i])
         IN  v.k = "fin"
               => IF FractionIsZero(v)
                  THEN /\ line = IntegerText(v.n * Pow10(v.e))
                       /\ Occurs(line, ".") = 0
                  ELSE Occurs(line, ".") = 1

\* C10 amended: of the finite values written, one with a zero fractional
\* part is written as its integer text, without a point or an exponent; one
\* with a fractional part and a magnitude of at least 0.0001 is written in
\* positional notation with its decimal point; a smaller one is written in
\* exponent notation (0.00001 as "1e-05", without a point).  Each line
\* reads back as the value written.
C10_IntegerTextOrRepr ==
  WriteDone
    => \A i \in 1..Len(Given) :
         LET v    == Given[i]
             line == Strip(OutputLines[i])
         IN  v.k = "fin"
               => /\ ParseFloat(line) = Ok(v)
                  /\ IF FractionIsZero(v)
                     THEN /\ line = IntegerText(v.n * Pow10(v.e))
                          /\ Occurs(line, ".") = 0
                          /\ Occurs(line, "e") = 0
                     ELSE IF AtLeastTenThousandth(v)
                     THEN /\ Occurs(line, ".") = 1
                          /\ Occurs(line, "e") = 0
                     ELSE Occurs(line, "e") = 1

\* C10 witness: a run has written an input that spelled an integer as a
\* decimal (10.0) beside 20.5 and 0.00001.
C10_Witness ==
  /\ MainRun /\ WriteDone
  /\ {InputStripped[i] : i \in 1..Len(InputStripped)}
       = {<<"1", "0", ".", "0">>, <<"2", "0", ".", "5">>,
          <<"0", ".", "0", "0", "0", "0", "1">>}
  /\ OutputLines = << <<"1", "e", "-", "0", "5", LF>>,
                      <<"1", "0", LF>>,
                      <<"2", "0", ".", "5", LF>> >>

=============================================================================
